---- MODULE Spec2Model ----
(***************************************************************************)
(* A model of the dms-rs dictionary repository: the base dictionary (a     *)
(* JSON array of phrases), the per-language dictionaries (JSON objects     *)
(* tag -> text), and the operations of api/src/lib.rs that read and write  *)
(* them: init, update_basic_dictionary, sync_manual_phrases,               *)
(* generate_empty_dictionaries_from_static_basic (as one step and          *)
(* iteration by iteration), autotranslate_from_basic_dictionary,           *)
(* scan_files_for_phrases, build_for_i18next, the lookups                  *)
(* get_basic_dictionary / get_dictionary_by_lang, and the pure functions   *)
(* generate_regex / get_phrases_from_file and get_dictionary_language.     *)
(* Two invocations of update_basic_dictionary running at once are modelled *)
(* step by step (read, open with truncate, write).                         *)
(*                                                                         *)
(* Phrases and language codes are atomic strings.  Texts that pass through *)
(* a conversion (the translator's answer, which is serialised with         *)
(* Value::to_string and then has its quote characters removed) are         *)
(* sequences of one-character strings, so that the conversion is computed. *)
(* File names and the markers of a configuration are sequences of          *)
(* characters too.                                                         *)
(***************************************************************************)
EXTENDS Naturals, Sequences, FiniteSets, TLC

VARIABLES
    base,     \* the base dictionary file: [exists, content]
    dict,     \* per-language dictionary files: language -> [exists, content]
    apc,      \* position of a running autoTranslate: "idle" or "running"
    atargets, \* target_languages of the running autoTranslate
    atasks,   \* its spawned tasks, in scheduling order
    ret,      \* what the last finished operation was given and returned
    out,      \* exported files: language -> [exists, content] of translation.json
    gen,      \* the iterations of a running generateManual, one per list entry
    mrg       \* two merges running at once: their positions, and the base file's tear

vars == <<base, dict, apc, atargets, atasks, ret, out, gen, mrg>>

-----------------------------------------------------------------------------
(* Bounds of the model.                                                    *)

\* Longest phrase list handed to one merge / sync call.
MaxWords == 3
\* Longest language list handed to generateManual / autoTranslate.
MaxLangs == 2
\* Longest list of exclude patterns in a configuration.
MaxExclude == 2
\* Most entries of the scanned directory.
MaxEntries == 2
\* Most translation tasks one autoTranslate spawns.
MaxTasks == 4
\* Longest list of start markers and of end markers in a configuration.
MaxMarkers == 2
\* Most quoted literals in one source file handed to the extraction.
MaxLiterals == 2
\* Most files of a dictionary directory handed to the lookups.
MaxFiles == 3

Phrases == {"Hello", "Bye", "Yes"}
\* The phrases of the base dictionary whose translations are generated.
TranslatedPhrases == {"Hello", "Bye"}
Langs == {"de", "fr"}

Quote == "\""
Backslash == "\\"

\* Texts the translation provider may answer with (its translatedText).
ProviderTexts == { <<"H", "i">>, <<"H", Quote, "i">> }

SeqsUpTo(S, n) == UNION { [1..k -> S] : k \in 0..n }

-----------------------------------------------------------------------------
(* Sequences and JSON objects.                                             *)

Contains(s, x) == \E i \in 1..Len(s) : s[i] = x

Range(s) == { s[i] : i \in 1..Len(s) }

NoDuplicates(s) == \A i, j \in 1..Len(s) : s[i] = s[j] => i = j

IsPrefix(s, t) == Len(s) <= Len(t) /\ \A i \in 1..Len(s) : s[i] = t[i]

NoFile == [exists |-> FALSE, content |-> <<>>]

File(c) == [exists |-> TRUE, content |-> c]

\* Vec::dedup: removes consecutive repeated elements only.
RECURSIVE Dedup(_)
Dedup(s) ==
    IF Len(s) <= 1 THEN s
    ELSE LET r == Dedup(Tail(s))
         IN  IF Head(s) = Head(r) THEN r ELSE <<Head(s)>> \o r

-----------------------------------------------------------------------------
(* The base dictionary (module static_translate).                          *)

\* What one finished operation was given and what it returned, with the
\* files as they were when it started.
Ret(op, result, args) ==
    [op |-> op, result |-> result, args |-> args,
     preBase |-> base, preDict |-> dict,
     failed |-> 0, reported |-> 0, crashed |-> 0, resp |-> <<>>, reads |-> <<>>,
     value |-> <<>>]

\* Nothing has been called yet.
NoRet ==
    [op |-> "none", result |-> "none", args |-> <<>>,
     preBase |-> NoFile, preDict |-> [l \in Langs |-> NoFile],
     failed |-> 0, reported |-> 0, crashed |-> 0, resp |-> <<>>,
     reads |-> <<>>, value |-> <<>>]

\* The arguments of one call of a function that reads and writes no file.
Given(op, args) == [NoRet EXCEPT !.op = op, !.result = "given", !.args = args]

\* parse_static_basic_dictionary: the JSON array of the base file as a
\* Vec<String>.  The indexed parallel map-collect keeps the array's order,
\* and serde_json writes and reads an array of strings without loss.
ParseStaticBasicDictionary(file) == file.content

\* The loop of update_basic_dictionary, always pushing (no contains check).
RECURSIVE MergeWordsNoCheck(_, _)
MergeWordsNoCheck(content, words) ==
    IF words = <<>> THEN content
    ELSE MergeWordsNoCheck(Append(content, Head(words)), Tail(words))

\* The loop of update_basic_dictionary, checking every word against the
\* content as read only, not against the words pushed before it.
MergeWordsStale(content, words) ==
    content \o SelectSeq(words, LAMBDA w : ~Contains(content, w))

\* The loop of update_basic_dictionary, pushing at the front.
RECURSIVE MergeWordsFront(_, _)
MergeWordsFront(content, words) ==
    IF words = <<>> THEN content
    ELSE MergeWordsFront(
             IF Contains(content, Head(words)) THEN content
             ELSE <<Head(words)>> \o content,
             Tail(words))

\* The loop of update_basic_dictionary: push every word the content does
\* not contain yet, in the order of the input.
RECURSIVE MergeWords(_, _)
MergeWords(content, words) ==
    IF words = <<>> THEN content
    ELSE MergeWords(
             IF Contains(content, Head(words)) THEN content
             ELSE Append(content, Head(words)),
             Tail(words))

\* No merge is running, and the base file is a whole JSON document.
NoMerges == [calls |-> <<>>, torn |-> FALSE, overlapped |-> FALSE]

\* An init that opens the base file as File::create does: an existing file
\* is emptied and written anew.
InitNewDictionarySystemTruncating ==
    /\ apc = "idle"
    /\ base' = File(<<>>)
    /\ ret' = Ret("init", "Ok", <<>>)
    /\ UNCHANGED <<dict, apc, atargets, atasks, out, gen, mrg>>

\* init_new_dictionary_system: File::create_new fails on an existing file,
\* otherwise the new base dictionary holds json!([]).
InitNewDictionarySystem ==
    /\ apc = "idle"
    /\ IF base.exists
       THEN /\ ret' = Ret("init", "IOError", <<>>)
            /\ UNCHANGED base
       ELSE /\ base' = File(<<>>)
            /\ ret' = Ret("init", "Ok", <<>>)
    /\ UNCHANGED <<dict, apc, atargets, atasks, out, gen, mrg>>

\* update_basic_dictionary(dictionary_dir, words)
UpdateBasicDictionary(words) ==
    /\ apc = "idle"
    /\ IF ~base.exists
       THEN /\ ret' = Ret("merge", "BasicDictionaryNotFound", words)
            /\ UNCHANGED base
       ELSE /\ base' = File(MergeWords(ParseStaticBasicDictionary(base), words))
            /\ ret' = Ret("merge", "Ok", words)
    /\ UNCHANGED <<dict, apc, atargets, atasks, out, gen, mrg>>

\* sync_manual_phrases(manual_phrases, dictionary_dir): the merged list is
\* built in a local Mutex<Vec<String>> and dropped; no file is written.
SyncManualPhrases(manual_phrases) ==
    /\ apc = "idle"
    /\ ret' = Ret("sync",
                  IF base.exists THEN "Ok" ELSE "BasicDictionaryNotFound",
                  manual_phrases)
    /\ UNCHANGED <<base, dict, apc, atargets, atasks, out, gen, mrg>>

-----------------------------------------------------------------------------
(* Two invocations of update_basic_dictionary at once.  Nothing in the     *)
(* function locks the base file, so the steps of two processes interleave: *)
(* parse_static_basic_dictionary (read), OpenOptions..truncate(true).open  *)
(* (the file is emptied) and to_writer_pretty (the file is written from    *)
(* its start through the handle).                                          *)

\* Two processes call update_basic_dictionary, each with its words.
MergeStartTwo(words1, words2) ==
    /\ apc = "idle" /\ gen = <<>> /\ mrg.calls = <<>>
    /\ mrg' = [mrg EXCEPT
                  !.calls = [i \in 1..2 |->
                                [words |-> IF i = 1 THEN words1 ELSE words2,
                                 pc |-> "read", content |-> <<>>,
                                 dirty |-> FALSE, result |-> "none"]],
                  !.overlapped = FALSE]
    /\ ret' = Ret("merge2", "running",
                  [words |-> <<words1, words2>>, torn |-> mrg.torn])
    /\ UNCHANGED <<base, dict, apc, atargets, atasks, out, gen>>

Call(i, pc) == i \in 1..Len(mrg.calls) /\ mrg.calls[i].pc = pc

\* The other one of the two calls.
Other(i) == 3 - i

\* get_basic_dictionary and parse_static_basic_dictionary: no base file is
\* BasicDictionaryNotFound, a file that is no whole JSON document (emptied
\* or half written by the other process) is JSONParsingError.  Reading
\* while the other call is between its read and the end of its write makes
\* the two calls overlap.
MergeRead(i) ==
    /\ Call(i, "read")
    /\ mrg' = [mrg EXCEPT
                  !.calls[i] =
                      IF ~base.exists
                      THEN [@ EXCEPT !.pc = "done", !.result = "BasicDictionaryNotFound"]
                      ELSE IF mrg.torn
                      THEN [@ EXCEPT !.pc = "done", !.result = "JSONParsingError"]
                      ELSE [@ EXCEPT !.pc = "open",
                                     !.content = ParseStaticBasicDictionary(base)],
                  !.overlapped = @ \/ mrg.calls[Other(i)].pc \in {"open", "write"}]
    /\ UNCHANGED <<base, dict, apc, atargets, atasks, ret, out, gen>>

\* OpenOptions::new().write(true).truncate(true).open(..): the file is
\* emptied.
MergeOpen(i) ==
    /\ Call(i, "open")
    /\ mrg' = [mrg EXCEPT !.calls[i].pc = "write", !.torn = TRUE]
    /\ UNCHANGED <<base, dict, apc, atargets, atasks, ret, out, gen>>

\* What a call writes, with the content it read left out.
WrittenContentOwnWords(call) == MergeWords(<<>>, call.words)

\* What a call writes: the content it read, with its new words pushed.
WrittenContent(call) == MergeWords(call.content, call.words)

\* serde_json::to_writer_pretty(&file, ..): the document is written from
\* the start of the file.  When the other process has written through its
\* own handle since this one opened the file, the bytes of the two writes
\* share the file: it holds this call's document, or this call's document
\* followed by the rest of a longer one, which is no JSON document.
MergeWrite(i) ==
    /\ Call(i, "write")
    /\ base' = File(WrittenContent(mrg.calls[i]))
    /\ \E torn \in (IF mrg.calls[i].dirty THEN {TRUE, FALSE} ELSE {FALSE}) :
           mrg' = [mrg EXCEPT
                      !.calls = [j \in 1..2 |->
                                    IF j = i
                                    THEN [mrg.calls[j] EXCEPT !.pc = "done", !.result = "Ok"]
                                    ELSE IF mrg.calls[j].pc = "write"
                                    THEN [mrg.calls[j] EXCEPT !.dirty = TRUE]
                                    ELSE mrg.calls[j]],
                      !.torn = torn]
    /\ UNCHANGED <<dict, apc, atargets, atasks, ret, out, gen>>

\* Both processes have ended.
MergeEndTwo ==
    /\ mrg.calls # <<>>
    /\ \A i \in 1..2 : mrg.calls[i].pc = "done"
    /\ ret' = [ret EXCEPT
                  !.result = "done",
                  !.value = [results |-> [i \in 1..2 |-> mrg.calls[i].result],
                             overlapped |-> mrg.overlapped,
                             torn |-> mrg.torn]]
    /\ mrg' = [mrg EXCEPT !.calls = <<>>]
    /\ UNCHANGED <<base, dict, apc, atargets, atasks, out, gen>>

-----------------------------------------------------------------------------
(* Per-language dictionaries: manual generation and auto-translation.      *)

\* The language get_dictionary_language reads off the base file's name.
SourceLanguage == "en"

\* Word::new(word, tag, lang)
Word(word, tag, lang) == [word |-> word, tag |-> tag, language |-> lang]

\* The Vec<Word> both generators build from the base dictionary: dedup(),
\* then tag = word = phrase and language = the base dictionary's language.
WordsOfBase(file) ==
    LET d == Dedup(ParseStaticBasicDictionary(file))
    IN  [i \in 1..Len(d) |-> Word(d[i], d[i], SourceLanguage)]

HasRepeat(s) == \E i, j \in 1..Len(s) : i # j /\ s[i] = s[j]

\* The object generate_empty_dictionaries_from_static_basic writes, with the
\* first word left out.
EmptyDictionaryOfTail(words) ==
    [k \in { words[i].tag : i \in 2..Len(words) } |-> <<>>]

\* The object generate_empty_dictionaries_from_static_basic writes:
\* json_object[word.word] = "" for every word.
EmptyDictionaryOf(words) ==
    [k \in { words[i].word : i \in 1..Len(words) } |-> <<>>]

\* generate_empty_dictionaries_from_static_basic(dictionary_dir, languages).
\* Every language is handled by a parallel iteration that removes an
\* existing dictionary-<language>.json, creates it anew and writes the
\* object.  Two iterations for the same language race on remove_file and
\* File::create_new; the loser's expect() panics, while the other iteration
\* still runs to its end, so the file holds the object either way.
GenerateEmptyDictionaries(languages) ==
    /\ apc = "idle"
    /\ IF ~base.exists
       THEN /\ ret' = Ret("manual", "BasicDictionaryNotFound", languages)
            /\ UNCHANGED dict
       ELSE /\ dict' = [l \in Langs |->
                           IF l \in Range(languages)
                           THEN File(EmptyDictionaryOf(WordsOfBase(base)))
                           ELSE dict[l]]
            /\ \E result \in {"Ok"} \cup
                             (IF HasRepeat(languages) THEN {"Panic"} ELSE {}) :
                   ret' = Ret("manual", result, languages)
    /\ UNCHANGED <<base, apc, atargets, atasks, out, gen, mrg>>

\* generate_empty_dictionaries_from_static_basic step by step.  The base
\* dictionary is read, then languages.par_iter().for_each starts one
\* iteration per entry of the list, which run in parallel.
GenStart(languages) ==
    /\ apc = "idle" /\ gen = <<>>
    /\ IF ~base.exists
       THEN /\ ret' = Ret("manual", "BasicDictionaryNotFound", languages)
            /\ UNCHANGED gen
       ELSE IF languages = <<>>
       THEN /\ ret' = Ret("manual", "Ok", languages)
            /\ UNCHANGED gen
       ELSE /\ gen' = [i \in 1..Len(languages) |->
                          [language |-> languages[i], pc |-> "check", linked |-> FALSE]]
            /\ ret' = Ret("manual", "running", languages)
    /\ UNCHANGED <<base, dict, apc, atargets, atasks, out, mrg>>

At(i, pc) == i \in 1..Len(gen) /\ gen[i].pc = pc

\* if check_dictionary_exists(dictionary_dir, language)
GenCheck(i) ==
    /\ At(i, "check")
    /\ gen' = [gen EXCEPT ![i].pc = IF dict[gen[i].language].exists
                                    THEN "remove" ELSE "create"]
    /\ UNCHANGED <<base, dict, apc, atargets, atasks, ret, out, mrg>>

\* fs::remove_file(..).expect(..): the file is unlinked, also for an
\* iteration that has it open; the iteration panics when the file is gone.
GenRemove(i) ==
    /\ At(i, "remove")
    /\ IF dict[gen[i].language].exists
       THEN /\ dict' = [dict EXCEPT ![gen[i].language] = NoFile]
            /\ gen' = [j \in 1..Len(gen) |->
                          IF j = i THEN [gen[j] EXCEPT !.pc = "create"]
                          ELSE IF gen[j].language = gen[i].language
                          THEN [gen[j] EXCEPT !.linked = FALSE]
                          ELSE gen[j]]
       ELSE /\ gen' = [gen EXCEPT ![i].pc = "panicked"]
            /\ UNCHANGED dict
    /\ UNCHANGED <<base, apc, atargets, atasks, ret, out, mrg>>

\* fs::File::create_new(..).expect(..): a new, empty file the iteration
\* holds open; the iteration panics when the file exists.
GenCreate(i) ==
    /\ At(i, "create")
    /\ IF dict[gen[i].language].exists
       THEN /\ gen' = [gen EXCEPT ![i].pc = "panicked"]
            /\ UNCHANGED dict
       ELSE /\ dict' = [dict EXCEPT ![gen[i].language] = File(<<>>)]
            /\ gen' = [gen EXCEPT ![i].pc = "write", ![i].linked = TRUE]
    /\ UNCHANGED <<base, apc, atargets, atasks, ret, out, mrg>>

\* serde_json::to_writer_pretty(&file, ..): the object goes to the file the
\* iteration holds open, which is the file of the path unless it has been
\* unlinked since.
GenWrite(i) ==
    /\ At(i, "write")
    /\ IF gen[i].linked
       THEN dict' = [dict EXCEPT ![gen[i].language] =
                                    File(EmptyDictionaryOf(WordsOfBase(base)))]
       ELSE UNCHANGED dict
    /\ gen' = [gen EXCEPT ![i].pc = "done", ![i].linked = FALSE]
    /\ UNCHANGED <<base, apc, atargets, atasks, ret, out, mrg>>

\* for_each returns when every iteration has ended, and a panic of one of
\* them goes on to the caller.
GenFinish ==
    /\ gen # <<>>
    /\ \A i \in 1..Len(gen) : gen[i].pc \in {"done", "panicked"}
    /\ ret' = [Ret("manual",
                   IF \E i \in 1..Len(gen) : gen[i].pc = "panicked" THEN "Panic" ELSE "Ok",
                   ret.args)
                  EXCEPT !.preDict = ret.preDict]
    /\ gen' = <<>>
    /\ UNCHANGED <<base, dict, apc, atargets, atasks, out, mrg>>

\* serde_json's rendering of a JSON string (Value::to_string): the text in
\* double quotes, with every quote and backslash of the text escaped.
RECURSIVE JsonEscape(_)
JsonEscape(text) ==
    IF text = <<>> THEN <<>>
    ELSE (IF Head(text) \in {Quote, Backslash}
          THEN <<Backslash, Head(text)>>
          ELSE <<Head(text)>>) \o JsonEscape(Tail(text))

JsonToString(text) == <<Quote>> \o JsonEscape(text) \o <<Quote>>

\* str::replace("\"", ""): every quote character is removed.
RemoveQuotes(text) == SelectSeq(text, LAMBDA c : c # Quote)

\* The Word a task has not produced yet.
NoWord == Word(<<>>, "", "")

\* The tasks of the two nested loops: for every target language, in the
\* order of the list, one task per word.
SpawnTasks(target_languages, words) ==
    LET n == Len(words)
    IN  [i \in 1..(Len(target_languages) * n) |->
            [word |-> words[((i - 1) % n) + 1],
             target |-> target_languages[((i - 1) \div n) + 1],
             state |-> "pending",
             translatedText |-> <<>>,
             result |-> NoWord]]

\* autotranslate_from_basic_dictionary up to join_all, going on to the
\* spawning loop when the base dictionary was not found.
AutoStartUnchecked(target_languages) ==
    /\ apc = "idle"
    /\ Len(target_languages) * Len(WordsOfBase(base)) <= MaxTasks
    /\ apc' = "running"
    /\ atargets' = target_languages
    /\ atasks' = SpawnTasks(target_languages, WordsOfBase(base))
    /\ ret' = Ret("auto", "running", target_languages)
    /\ UNCHANGED <<base, dict, out, gen, mrg>>

\* autotranslate_from_basic_dictionary up to join_all: read and dedup the
\* base dictionary, spawn one task per (target language, word).  The code
\* spawns without limit; the model follows batches of up to MaxTasks tasks.
AutoStart(target_languages) ==
    /\ apc = "idle"
    /\ Len(target_languages) * Len(WordsOfBase(base)) <= MaxTasks
    /\ IF ~base.exists
       THEN /\ ret' = Ret("auto", "BasicDictionaryNotFound", target_languages)
            /\ UNCHANGED <<apc, atargets, atasks>>
       ELSE /\ apc' = "running"
            /\ atargets' = target_languages
            /\ atasks' = SpawnTasks(target_languages, WordsOfBase(base))
            /\ ret' = Ret("auto", "running", target_languages)
    /\ UNCHANGED <<base, dict, out, gen, mrg>>

Pending(i) == apc = "running" /\ i \in 1..Len(atasks) /\ atasks[i].state = "pending"

\* translate_word_with_tag returns Ok: the provider answered with a body
\* whose translatedText is text; the Word carries its to_string().
AutoTaskOk(i, text) ==
    /\ Pending(i)
    /\ atasks' = [atasks EXCEPT ![i].state = "ok",
                                ![i].translatedText = text,
                                ![i].result = Word(JsonToString(text),
                                                   atasks[i].word.tag,
                                                   atasks[i].target)]
    /\ UNCHANGED <<base, dict, apc, atargets, ret, out, gen, mrg>>

\* translate_word_with_tag returns Err: the request or the decoding of the
\* body failed (reqwest::Error or serde_json::Error through `?`).
AutoTaskApiError(i) ==
    /\ Pending(i)
    /\ atasks' = [atasks EXCEPT ![i].state = "api"]
    /\ UNCHANGED <<base, dict, apc, atargets, ret, out, gen, mrg>>

\* The task itself dies (translated_word["translatedText"] panics on a body
\* without that key, or the task is cancelled): join_all yields a JoinError.
AutoTaskPanic(i) ==
    /\ Pending(i)
    /\ atasks' = [atasks EXCEPT ![i].state = "join"]
    /\ UNCHANGED <<base, dict, apc, atargets, ret, out, gen, mrg>>

Failed(tasks, kind) == { i \in 1..Len(tasks) : tasks[i].state = kind }

\* The loop over the join results with failed items skipped instead of
\* returned.
JoinResultSkipping(tasks) == "Ok"

\* The loop over the join results, in scheduling order: the first result
\* that is not Ok(Ok(word)) ends the function, `request_result?` with the
\* provider's error and Err(err) with AsyncError.
JoinResult(tasks) ==
    LET bad == Failed(tasks, "api") \cup Failed(tasks, "join")
    IN  IF bad = {} THEN "Ok"
        ELSE LET first == CHOOSE i \in bad : \A j \in bad : i <= j
             IN  IF tasks[first].state = "api" THEN "APIError" ELSE "AsyncError"

\* words_with_languages_hashmap[language], with the words of the first
\* scheduled task left out.
GroupedWordsTail(tasks, language) ==
    LET rest == IF tasks = <<>> THEN <<>> ELSE Tail(tasks)
        ok == SelectSeq(rest, LAMBDA t : t.state = "ok" /\ t.result.language = language)
    IN  [i \in 1..Len(ok) |-> ok[i].result]

\* words_with_languages_hashmap[language]: the translated words whose
\* language is that key, in scheduling order.
GroupedWords(tasks, language) ==
    LET ok == SelectSeq(tasks, LAMBDA t : t.state = "ok" /\ t.result.language = language)
    IN  [i \in 1..Len(ok) |-> ok[i].result]

\* The objects the writing loop can produce from one language's words:
\* json_object[word.tag] = word.word.replace("\"", ""), the assignments made
\* by a parallel for_each under a mutex, so that of two words with the same
\* tag either may be the last one written.
WrittenObjects(words) ==
    LET tags == { words[i].tag : i \in 1..Len(words) }
        cand(k) == { RemoveQuotes(words[i].word) : i \in { j \in 1..Len(words) : words[j].tag = k } }
    IN  { m \in [tags -> UNION { cand(k) : k \in tags }] : \A k \in tags : m[k] \in cand(k) }

\* What the provider answered to every task, in scheduling order.
Responses(tasks) ==
    [i \in 1..Len(tasks) |->
        [tag |-> tasks[i].word.tag, language |-> tasks[i].target,
         text |-> tasks[i].translatedText]]

\* autotranslate_from_basic_dictionary going on to the result loop and the
\* writing loop without waiting for every task (no join_all barrier).
AutoJoinEarly ==
    /\ apc = "running"
    /\ LET result == JoinResult(atasks)
       IN  /\ IF result = "Ok"
              THEN \E objs \in [Range(atargets) -> UNION { WrittenObjects(GroupedWords(atasks, l)) : l \in Range(atargets) }] :
                      /\ \A l \in Range(atargets) : objs[l] \in WrittenObjects(GroupedWords(atasks, l))
                      /\ dict' = [l \in Langs |-> IF l \in Range(atargets) THEN File(objs[l]) ELSE dict[l]]
              ELSE UNCHANGED dict
           /\ ret' = [Ret("auto", result, atargets) EXCEPT
                         !.failed = Cardinality(Failed(atasks, "api")),
                         !.crashed = Cardinality(Failed(atasks, "join")),
                         !.reported = IF result = "APIError" THEN 1 ELSE 0,
                         !.resp = IF result = "Ok" THEN Responses(atasks) ELSE <<>>]
    /\ apc' = "idle"
    /\ atargets' = <<>>
    /\ atasks' = <<>>
    /\ UNCHANGED <<base, out, gen, mrg>>

\* autotranslate_from_basic_dictionary from join_all on: every task has
\* finished; the results are regrouped by language and, unless one of them
\* is an error, every target language's dictionary is removed, created anew
\* and written.
AutoJoin ==
    /\ apc = "running"
    /\ \A i \in 1..Len(atasks) : atasks[i].state # "pending"
    /\ LET result == JoinResult(atasks)
       IN  /\ IF result = "Ok"
              THEN \E objs \in [Range(atargets) -> UNION { WrittenObjects(GroupedWords(atasks, l)) : l \in Range(atargets) }] :
                      /\ \A l \in Range(atargets) : objs[l] \in WrittenObjects(GroupedWords(atasks, l))
                      /\ dict' = [l \in Langs |-> IF l \in Range(atargets) THEN File(objs[l]) ELSE dict[l]]
              ELSE UNCHANGED dict
           /\ ret' = [Ret("auto", result, atargets) EXCEPT
                         !.failed = Cardinality(Failed(atasks, "api")),
                         !.crashed = Cardinality(Failed(atasks, "join")),
                         !.reported = IF result = "APIError" THEN 1 ELSE 0,
                         !.resp = IF result = "Ok" THEN Responses(atasks) ELSE <<>>]
    /\ apc' = "idle"
    /\ atargets' = <<>>
    /\ atasks' = <<>>
    /\ UNCHANGED <<base, out, gen, mrg>>

-----------------------------------------------------------------------------
(* Scanning the project directory (module parser).                         *)

IsSuffix(s, t) ==
    Len(s) <= Len(t) /\ \A i \in 1..Len(s) : s[i] = t[Len(t) - Len(s) + i]

\* Regex::is_match for a pattern without metacharacters: the pattern occurs
\* somewhere in the text.
IsMatch(pattern, text) ==
    \E i \in 0..(Len(text) - Len(pattern)) :
        \A j \in 1..Len(pattern) : text[i + j] = pattern[j]

StartsWithDot(filename) == Len(filename) > 0 /\ filename[1] = "."

\* get_file_extension (Path::extension): the part after the last dot;
\* none when the name has no dot or its only dot is the first character.
GetFileExtension(filename) ==
    LET dots == { i \in 2..Len(filename) : filename[i] = "." }
    IN  IF dots = {} THEN [some |-> FALSE, ext |-> <<>>]
        ELSE LET last == CHOOSE i \in dots : \A j \in dots : j <= i
             IN  [some |-> TRUE, ext |-> SubSeq(filename, last + 1, Len(filename))]

\* Vec<String>::join("|")
RECURSIVE JoinBar(_)
JoinBar(markers) ==
    IF Len(markers) = 0 THEN <<>>
    ELSE IF Len(markers) = 1 THEN markers[1]
    ELSE markers[1] \o <<"|">> \o JoinBar(Tail(markers))

\* generate_regex: (start)"(.*?)"(end), where start and end are the joined
\* marker lists after regex::escape, that is, literal texts.
GenerateRegex(regex_start, regex_end) ==
    [start |-> JoinBar(regex_start), end |-> JoinBar(regex_end)]

\* include_files_patterns: extension -> compiled pattern.
IncludePatterns(conf) ==
    [e \in conf.file_extensions |-> GenerateRegex(conf.string_start, conf.string_end)]

\* A line of a source file is the text  before"phrase"after.  The pattern
\* matches it when its start text ends `before` and its end text begins
\* `after`; the capture group 2 is the phrase.
LineMatches(regex, line) ==
    IsSuffix(regex.start, line.before) /\ IsPrefix(regex.end, line.after)

\* get_phrases_from_file: the captured phrases of all lines, in order.
GetPhrasesFromFile(file, regex) ==
    LET hit == SelectSeq(file.lines, LAMBDA line : LineMatches(regex, line))
    IN  [i \in 1..Len(hit) |-> hit[i].phrase]

\* The body both branches of the directory loop share: look the extension
\* up, read the file, merge its phrases.  acc carries the base dictionary
\* file as written so far, the files read so far and the result so far.
ScanFile(acc, file, patterns) ==
    LET extension == GetFileExtension(file.name)
        key == <<".">> \o extension.ext
    IN  IF acc.result # "Ok" THEN acc
        ELSE IF ~extension.some THEN [acc EXCEPT !.result = "Panic"]
        ELSE IF key \notin DOMAIN patterns THEN acc
        ELSE IF ~file.readable THEN [acc EXCEPT !.result = "IOError"]
        ELSE IF ~acc.base.exists
             THEN [acc EXCEPT !.reads = Append(@, file.name),
                              !.result = "BasicDictionaryNotFound"]
        ELSE [acc EXCEPT
                 !.reads = Append(@, file.name),
                 !.base = File(MergeWords(ParseStaticBasicDictionary(acc.base),
                                          GetPhrasesFromFile(file, patterns[key])))]

\* The else branch of the directory loop: for every exclude pattern that
\* does not match the name of a file that is not hidden, the shared body.
RECURSIVE ScanExcluding(_, _, _, _)
ScanExcluding(acc, file, exclude, patterns) ==
    IF exclude = <<>> THEN acc
    ELSE ScanExcluding(
             IF ~IsMatch(Head(exclude), file.name) /\ ~StartsWithDot(file.name)
             THEN ScanFile(acc, file, patterns)
             ELSE acc,
             file, Tail(exclude), patterns)

\* The directory loop of scan_files_for_phrases.  An entry read_dir yields
\* as Err(err) ends the scan with IOError(err).
RECURSIVE ScanEntries(_, _, _, _)
ScanEntries(acc, entries, exclude, patterns) ==
    IF entries = <<>> \/ acc.result # "Ok" THEN acc
    ELSE LET file == Head(entries)
             next == IF ~file.listed
                     THEN [acc EXCEPT !.result = "IOError"]
                     ELSE IF Len(exclude) = 0
                     THEN IF ~StartsWithDot(file.name)
                          THEN ScanFile(acc, file, patterns)
                          ELSE acc
                     ELSE ScanExcluding(acc, file, exclude, patterns)
         IN  ScanEntries(next, Tail(entries), exclude, patterns)

\* scan_files_for_phrases, for a configuration with the given exclude list
\* and language configuration and a listing of the base directory.
ScanFilesForPhrases(exclude, conf, entries) ==
    /\ apc = "idle"
    /\ LET done == ScanEntries([base |-> base, reads |-> <<>>, result |-> "Ok"],
                               entries, exclude, IncludePatterns(conf))
       IN  /\ base' = done.base
           /\ ret' = [Ret("scan", done.result, [exclude |-> exclude, entries |-> entries])
                         EXCEPT !.reads = done.reads]
    /\ UNCHANGED <<dict, apc, atargets, atasks, out, gen, mrg>>

\* The inputs a scan is given.
ExcludePatterns == { <<"a">>, <<"h">>, <<"j", "s">> }

JsConfiguration ==
    [file_extensions |-> { <<".", "j", "s">> },
     string_start |-> << <<"t", "(">> >>,
     string_end |-> << <<")">> >>]

SourceLine(phrase) == [before |-> <<"t", "(">>, phrase |-> phrase, after |-> <<")">>]

SourceFiles ==
    { [name |-> <<"a", ".", "j", "s">>, listed |-> TRUE, readable |-> TRUE,
       lines |-> <<SourceLine("Hello")>>],
      [name |-> <<"b", ".", "j", "s">>, listed |-> TRUE, readable |-> TRUE,
       lines |-> <<SourceLine("Bye"), SourceLine("Hello")>>],
      [name |-> <<".", "h", ".", "j", "s">>, listed |-> TRUE, readable |-> TRUE,
       lines |-> <<SourceLine("Bye")>>],
      \* a file File::open fails on
      [name |-> <<"u", ".", "j", "s">>, listed |-> TRUE, readable |-> FALSE,
       lines |-> <<>>] }

\* Directory listings: the files of the directory in any order.
Listings == { s \in SeqsUpTo(SourceFiles, MaxEntries) : NoDuplicates(s) }

\* Entries of a directory that holds more than source files: a source
\* file, a file with an extension of no configuration, an entry without
\* extension (a subdirectory, a Makefile), and an entry read_dir could not
\* read (the item of the iterator is Err).
MixedEntries ==
    { [name |-> <<"a", ".", "j", "s">>, listed |-> TRUE, readable |-> TRUE,
       lines |-> <<SourceLine("Hello")>>],
      [name |-> <<"c", ".", "m", "d">>, listed |-> TRUE, readable |-> TRUE,
       lines |-> <<SourceLine("Bye")>>],
      [name |-> <<"m">>, listed |-> TRUE, readable |-> TRUE, lines |-> <<>>],
      [name |-> <<>>, listed |-> FALSE, readable |-> FALSE, lines |-> <<>>] }

MixedListings == { s \in SeqsUpTo(MixedEntries, MaxEntries) : NoDuplicates(s) }

\* The markers configurations and source lines are built from.  No marker
\* is the end or the beginning of another one.
StartMarkers == { <<"t", "(">>, <<"t", "r", "(">>, <<"x", "(">> }

EndMarkers == { <<")">>, <<"]">> }

\* regexp-start / regexp-end lists: one marker or more, none repeated.
MarkerLists(markers) ==
    { s \in SeqsUpTo(markers, MaxMarkers) : Len(s) >= 1 /\ NoDuplicates(s) }

\* The quoted literals of a source file, each between two markers.
Literals ==
    SeqsUpTo([before : StartMarkers, phrase : TranslatedPhrases, after : EndMarkers],
             MaxLiterals)

\* generate_regex followed by get_phrases_from_file on a readable file with
\* the given literals.
ExtractPhrases ==
    /\ ret.op = "phrases" /\ ret.result = "given"
    /\ ret' = [ret EXCEPT
                  !.result = "Ok",
                  !.value = GetPhrasesFromFile(
                                [lines |-> ret.args.lines],
                                GenerateRegex(ret.args.string_start, ret.args.string_end))]
    /\ UNCHANGED <<base, dict, apc, atargets, atasks, out, gen, mrg>>

-----------------------------------------------------------------------------
(* Names of dictionary files (module file_system and basic_functions).     *)

DictionaryPrefix == <<"d", "i", "c", "t", "i", "o", "n", "a", "r", "y", "-">>

BaseSuffix == <<".", "b", "a", "s", "e">>

JsonSuffix == <<".", "j", "s", "o", "n">>

\* init_new_dictionary_system: dictionary-{basic_language}.base.json
BaseFileName(language) == DictionaryPrefix \o language \o BaseSuffix \o JsonSuffix

\* dictionary-{language}.json, as the generators and check_dictionary_exists
\* build it.
TranslatedFileName(language) == DictionaryPrefix \o language \o JsonSuffix

\* The lengths a capture group 1 of ^dictionary-(.+?)(?:\.base)?\.json$ can
\* have in a match of the whole name: at least one character after the
\* prefix, followed to the end of the name by .json or by .base.json.
CaptureLengths(name) ==
    { k \in 1..(Len(name) - Len(DictionaryPrefix)) :
        /\ IsPrefix(DictionaryPrefix, name)
        /\ LET rest == SubSeq(name, Len(DictionaryPrefix) + k + 1, Len(name))
           IN  rest = JsonSuffix \/ rest = BaseSuffix \o JsonSuffix }

\* get_dictionary_language with a greedy group 1, (.+) instead of (.+?).
GetDictionaryLanguageGreedy(name) ==
    LET ks == CaptureLengths(name)
    IN  IF ks = {} THEN [ok |-> FALSE, language |-> <<>>]
        ELSE LET k == CHOOSE k \in ks : \A j \in ks : j <= k
             IN  [ok |-> TRUE,
                  language |-> SubSeq(name, Len(DictionaryPrefix) + 1, Len(DictionaryPrefix) + k)]

\* get_dictionary_language: Err(()) when the pattern does not match the
\* name, else the text of group 1, which is lazy: the shortest capture that
\* lets the rest of the pattern match.
GetDictionaryLanguage(name) ==
    LET ks == CaptureLengths(name)
    IN  IF ks = {} THEN [ok |-> FALSE, language |-> <<>>]
        ELSE LET k == CHOOSE k \in ks : \A j \in ks : k <= j
             IN  [ok |-> TRUE,
                  language |-> SubSeq(name, Len(DictionaryPrefix) + 1, Len(DictionaryPrefix) + k)]

\* get_dictionary_language applied to the given name.
DecodeLanguage ==
    /\ ret.op = "language" /\ ret.result = "given"
    /\ LET decoded == GetDictionaryLanguage(ret.args)
       IN  ret' = [ret EXCEPT !.result = IF decoded.ok THEN "Ok" ELSE "Err",
                              !.value = decoded.language]
    /\ UNCHANGED <<base, dict, apc, atargets, atasks, out, gen, mrg>>

\* The letters language codes are written with.
Letters == {"d", "e", "n", "r", "u"}

\* Language texts: every two-letter code, and a longer text.
LanguageTexts == [1..2 -> Letters] \cup { <<"e", "n", "g">> }

\* File names that are not built as dictionary files are: no prefix, text
\* before the prefix, text after .json, no .json, no language.
OtherNames ==
    UNION { { l \o JsonSuffix,
              <<"x">> \o TranslatedFileName(l),
              TranslatedFileName(l) \o <<".", "b", "a", "k">>,
              DictionaryPrefix \o l \o BaseSuffix } : l \in LanguageTexts }
    \cup { DictionaryPrefix \o JsonSuffix }

FileNames ==
    { BaseFileName(l) : l \in LanguageTexts }
    \cup { TranslatedFileName(l) : l \in LanguageTexts }
    \cup OtherNames

-----------------------------------------------------------------------------
(* Looking dictionary files up (module basic_functions).                   *)

\* filename.contains(".base")
QualifiesAsBase(name) == IsMatch(BaseSuffix, name)

\* filename.contains(&("dictionary-".to_owned() + lang))
QualifiesForLanguage(name, lang) == IsMatch(DictionaryPrefix \o lang, name)

\* The first name of the listing among the positions that qualify, if any.
FirstQualifying(listing, hits) ==
    IF hits = {} THEN [found |-> FALSE, filename |-> <<>>]
    ELSE [found |-> TRUE,
          filename |-> listing[CHOOSE i \in hits : \A j \in hits : i <= j]]

\* get_basic_dictionary: the loop over read_dir returns the first file name
\* that contains .base; BasicDictionaryNotFound when there is none.
GetBasicDictionary ==
    /\ ret.op = "get_basic_dictionary" /\ ret.result = "given"
    /\ LET listing == ret.args.listing
           hit == FirstQualifying(listing,
                                  { i \in 1..Len(listing) : QualifiesAsBase(listing[i]) })
       IN  ret' = [ret EXCEPT
                      !.result = IF hit.found THEN "Ok" ELSE "BasicDictionaryNotFound",
                      !.value = hit.filename]
    /\ UNCHANGED <<base, dict, apc, atargets, atasks, out, gen, mrg>>

\* get_dictionary_by_lang: the loop over read_dir returns the first file
\* name that contains dictionary-<lang>; IOError (NotFound) when there is
\* none.
GetDictionaryByLang ==
    /\ ret.op = "get_dictionary_by_lang" /\ ret.result = "given"
    /\ LET listing == ret.args.listing
           hit == FirstQualifying(listing,
                                  { i \in 1..Len(listing) :
                                      QualifiesForLanguage(listing[i], ret.args.lang) })
       IN  ret' = [ret EXCEPT
                      !.result = IF hit.found THEN "Ok" ELSE "IOError",
                      !.value = hit.filename]
    /\ UNCHANGED <<base, dict, apc, atargets, atasks, out, gen, mrg>>

\* File names of a dictionary directory: the base dictionaries of two
\* languages (init called for each), a translated dictionary and a copy of
\* it, and a file that is no dictionary.
DictionaryDirNames ==
    { BaseFileName(<<"e", "n">>),
      BaseFileName(<<"r", "u">>),
      TranslatedFileName(<<"d", "e">>),
      TranslatedFileName(<<"d", "e">>) \o <<".", "b", "a", "k">>,
      <<"c", "o", "n", "f", "i", "g">> \o JsonSuffix }

\* The directory as read_dir lists it: its files in any order.
DirListings == { s \in SeqsUpTo(DictionaryDirNames, MaxFiles) : NoDuplicates(s) }

-----------------------------------------------------------------------------
(* The export for i18next (module build_system).                           *)

\* A language code as the characters of a file name.
LangChars(language) ==
    CASE language = "de" -> <<"d", "e">>
      [] language = "fr" -> <<"f", "r">>
      [] language = "en" -> <<"e", "n">>

LowerCase ==
    {"a", "b", "c", "d", "e", "f", "g", "h", "i", "j", "k", "l", "m",
     "n", "o", "p", "q", "r", "s", "t", "u", "v", "w", "x", "y", "z"}

\* The names of the files of the dictionary directory.
DirectoryNames ==
    (IF base.exists THEN { BaseFileName(LangChars(SourceLanguage)) } ELSE {})
    \cup { TranslatedFileName(LangChars(l)) : l \in { k \in Langs : dict[k].exists } }

\* Regex ^dictionary-[a-z]{2}\.json$
IsTranslatedName(name) ==
    /\ Len(name) = Len(DictionaryPrefix) + 2 + Len(JsonSuffix)
    /\ IsPrefix(DictionaryPrefix, name)
    /\ name[Len(DictionaryPrefix) + 1] \in LowerCase
    /\ name[Len(DictionaryPrefix) + 2] \in LowerCase
    /\ IsSuffix(JsonSuffix, name)

\* find_all_translated_dictionaries, then get_dictionary_language(..).unwrap()
\* on every name found: the languages build exports when given none.
DiscoveredLanguages ==
    { l \in Langs :
        \E name \in DirectoryNames :
            /\ IsTranslatedName(name)
            /\ GetDictionaryLanguage(name).language = LangChars(l) }

\* The Option<Vec<String>> build is given.
NoLanguages == [some |-> FALSE, list |-> <<>>]

SomeLanguages(list) == [some |-> TRUE, list |-> list]

\* parse_translated_dictionary followed by the loop of build_for_i18next:
\* every value is rendered with Value::to_string and then loses its quote
\* characters.
ExportOf(content) ==
    [k \in DOMAIN content |-> RemoveQuotes(JsonToString(content[k]))]

\* build_for_i18next(dictionary_dir, output_directory, languages).  One
\* parallel iteration per entry of the language list: it reads the
\* language's dictionary (an error when the file is missing), creates
\* <output>/<language>/translation.json with File::create_new (an error
\* when it exists, also when another iteration for the same language has
\* just created it) and writes the export.  try_for_each returns the error
\* of a failed iteration; the iterations that do not fail may have run or
\* not when it returns.
BuildForI18next(languages) ==
    /\ apc = "idle"
    /\ LET targets == IF languages.some THEN Range(languages.list) ELSE DiscoveredLanguages
           unread == { l \in targets : ~dict[l].exists }
           present == { l \in targets : dict[l].exists /\ out[l].exists }
           repeated == { l \in targets \ (unread \cup present) :
                           \E i, j \in 1..Len(languages.list) :
                               i # j /\ languages.list[i] = l /\ languages.list[j] = l }
           good == targets \ (unread \cup present)
           write(done) == out' = [l \in Langs |->
                                   IF l \in done THEN File(ExportOf(dict[l].content))
                                   ELSE out[l]]
       IN  IF unread = {} /\ present = {} /\ repeated = {}
           THEN /\ write(good)
                /\ ret' = [Ret("build", "Ok", languages) EXCEPT !.value = out]
           ELSE \E done \in SUBSET good :
                   /\ (unread = {} /\ present = {}) => done \cap repeated # {}
                   /\ write(done)
                   /\ \E result \in (IF unread # {} THEN {"StaticDictionaryError"} ELSE {})
                                     \cup (IF present \cup (repeated \cap done) # {}
                                           THEN {"IOError"} ELSE {}) :
                          ret' = [Ret("build", result, languages) EXCEPT !.value = out]
    /\ UNCHANGED <<base, dict, apc, atargets, atasks, gen, mrg>>

-----------------------------------------------------------------------------
Init ==
    /\ base = NoFile
    /\ dict = [l \in Langs |-> NoFile]
    /\ apc = "idle"
    /\ atargets = <<>>
    /\ atasks = <<>>
    /\ ret = NoRet
    /\ out = [l \in Langs |-> NoFile]
    /\ gen = <<>>
    /\ mrg = NoMerges

\* The dictionary store.
Next ==
    \/ InitNewDictionarySystem
    \/ \E words \in SeqsUpTo(Phrases, MaxWords) : UpdateBasicDictionary(words)
    \/ \E words \in SeqsUpTo(Phrases, MaxWords) : SyncManualPhrases(words)

Spec == Init /\ [][Next]_vars

\* The scanner, which fills the base dictionary file by file.
NextScan ==
    \/ InitNewDictionarySystem
    \/ \E exclude \in SeqsUpTo(ExcludePatterns, MaxExclude), entries \in Listings :
           ScanFilesForPhrases(exclude, JsConfiguration, entries)

SpecScan == Init /\ [][NextScan]_vars

\* The scanner on directories that hold more than source files.
NextListing ==
    \/ InitNewDictionarySystem
    \/ \E exclude \in SeqsUpTo(ExcludePatterns, MaxExclude), entries \in MixedListings :
           ScanFilesForPhrases(exclude, JsConfiguration, entries)

SpecListing == Init /\ [][NextListing]_vars

\* The files of a repository nothing has been done to.
NoFiles ==
    /\ base = NoFile
    /\ dict = [l \in Langs |-> NoFile]
    /\ apc = "idle"
    /\ atargets = <<>>
    /\ atasks = <<>>
    /\ out = [l \in Langs |-> NoFile]
    /\ gen = <<>>
    /\ mrg = NoMerges

\* The extraction of phrases, for every configuration of markers and every
\* source file.
InitExtract ==
    /\ NoFiles
    /\ ret \in { Given("phrases", [string_start |-> s, string_end |-> e, lines |-> f]) :
                    s \in MarkerLists(StartMarkers), e \in MarkerLists(EndMarkers),
                    f \in Literals }

NextExtract == ExtractPhrases

SpecExtract == InitExtract /\ [][NextExtract]_vars

\* The decoding of the language of a file name, for every name.
InitNaming ==
    /\ NoFiles
    /\ ret \in { Given("language", name) : name \in FileNames }

NextNaming == DecodeLanguage

SpecNaming == InitNaming /\ [][NextNaming]_vars

\* The manual generation, iteration by iteration.
NextManual ==
    \/ gen = <<>> /\ InitNewDictionarySystem
    \/ \E words \in SeqsUpTo(TranslatedPhrases, MaxWords) :
           gen = <<>> /\ UpdateBasicDictionary(words)
    \/ \E languages \in SeqsUpTo(Langs, MaxLangs) : GenStart(languages)
    \/ \E i \in 1..Len(gen) : GenCheck(i)
    \/ \E i \in 1..Len(gen) : GenRemove(i)
    \/ \E i \in 1..Len(gen) : GenCreate(i)
    \/ \E i \in 1..Len(gen) : GenWrite(i)
    \/ GenFinish

SpecManual == Init /\ [][NextManual]_vars

\* The lookups of dictionary files, for every listing of the directory.
InitFind ==
    /\ NoFiles
    /\ ret \in { Given("get_basic_dictionary", [listing |-> s, lang |-> <<>>]) :
                    s \in DirListings }
              \cup { Given("get_dictionary_by_lang", [listing |-> s, lang |-> l]) :
                       s \in DirListings, l \in { <<"d", "e">>, <<"e", "n">> } }

NextFind == GetBasicDictionary \/ GetDictionaryByLang

SpecFind == InitFind /\ [][NextFind]_vars

\* The word lists two processes merge at once.
RaceWords == { <<>>, <<"Hello">>, <<"Bye">>, <<"Bye", "Yes">>, <<"Hello", "Hello">> }

\* Two merges at once, step by step, over a base dictionary that earlier
\* pairs of merges have filled.
NextRace ==
    \/ mrg.calls = <<>> /\ InitNewDictionarySystem
    \/ \E words1, words2 \in RaceWords : MergeStartTwo(words1, words2)
    \/ \E i \in 1..2 : MergeRead(i)
    \/ \E i \in 1..2 : MergeOpen(i)
    \/ \E i \in 1..2 : MergeWrite(i)
    \/ MergeEndTwo

SpecRace == Init /\ [][NextRace]_vars

\* The export: a base dictionary of one phrase, its translations, and the
\* builds of them.
ExportedPhrases == {"Hello"}

NextBuild ==
    \/ InitNewDictionarySystem
    \/ \E words \in SeqsUpTo(ExportedPhrases, 1) : UpdateBasicDictionary(words)
    \/ \E languages \in SeqsUpTo(Langs, MaxLangs) : GenerateEmptyDictionaries(languages)
    \/ \E languages \in SeqsUpTo(Langs, MaxLangs) : AutoStart(languages)
    \/ \E i \in 1..Len(atasks), text \in ProviderTexts : AutoTaskOk(i, text)
    \/ AutoJoin
    \/ BuildForI18next(NoLanguages)
    \/ \E languages \in SeqsUpTo(Langs, MaxLangs) : BuildForI18next(SomeLanguages(languages))

SpecBuild == Init /\ [][NextBuild]_vars

\* The dictionary store and the generators of per-language dictionaries.
NextTranslate ==
    \/ InitNewDictionarySystem
    \/ \E words \in SeqsUpTo(TranslatedPhrases, MaxWords) : UpdateBasicDictionary(words)
    \/ \E languages \in SeqsUpTo(Langs, MaxLangs) : GenerateEmptyDictionaries(languages)
    \/ \E languages \in SeqsUpTo(Langs, MaxLangs) : AutoStart(languages)
    \/ \E i \in 1..Len(atasks), text \in ProviderTexts : AutoTaskOk(i, text)
    \/ \E i \in 1..Len(atasks) : AutoTaskApiError(i)
    \/ \E i \in 1..Len(atasks) : AutoTaskPanic(i)
    \/ AutoJoin

SpecTranslate == Init /\ [][NextTranslate]_vars

-----------------------------------------------------------------------------
(* Properties of the dictionary store, checked under Spec (C10: under      *)
(* SpecScan).                                                              *)

MergeReturnedOk == ret.op = "merge" /\ ret.result = "Ok"

Count(s, x) == Cardinality({ i \in 1..Len(s) : s[i] = x })

\* The phrases of words that pre lacks, each once, in the order of their
\* first occurrence in words.
NewInOrder(pre, words) ==
    LET idx == SelectSeq([i \in 1..Len(words) |-> i],
                         LAMBDA i : /\ ~Contains(pre, words[i])
                                    /\ \A j \in 1..(i - 1) : words[j] # words[i])
    IN  [n \in 1..Len(idx) |-> words[idx[n]]]

\* C1: from the repository init creates, whatever phrase lists are merged
\* by update_basic_dictionary, the base dictionary never holds two equal
\* entries.
C1_BaseHasNoDuplicates == base.exists => NoDuplicates(base.content)

\* A merge of a list that repeats a phrase has been stored.
C1_Witness ==
    /\ MergeReturnedOk
    /\ HasRepeat(ret.args)
    /\ Len(base.content) > Len(ret.preBase.content)

\* C2: a merge of phrases that are all present leaves the base dictionary
\* as it was, entries and order, and after any merge every merged phrase
\* has exactly one entry, also when the call names it twice.
C2_MergeIdempotent ==
    MergeReturnedOk =>
        /\ \A p \in Range(ret.args) : Count(base.content, p) = 1
        /\ Range(ret.args) \subseteq Range(ret.preBase.content) => base = ret.preBase

\* A merge of phrases that were all present has returned.
C2_Witness ==
    /\ MergeReturnedOk
    /\ ret.args # <<>>
    /\ Range(ret.args) \subseteq Range(ret.preBase.content)

\* C3: after a successful merge the previous base dictionary is a prefix of
\* the new one and the rest is exactly the phrases that were absent, each
\* once, in the order of their first occurrence in the input.
C3_MergeAppendOnly ==
    MergeReturnedOk =>
        /\ IsPrefix(ret.preBase.content, base.content)
        /\ base.content = ret.preBase.content \o NewInOrder(ret.preBase.content, ret.args)

\* A merge has appended two new phrases behind an existing one, a present
\* phrase of the input being skipped.
C3_Witness ==
    /\ MergeReturnedOk
    /\ Len(ret.preBase.content) >= 1
    /\ Len(base.content) = Len(ret.preBase.content) + 2
    /\ \E i \in 1..Len(ret.args) : Contains(ret.preBase.content, ret.args[i])

\* C4: after sync_manual_phrases returns Ok the base dictionary file holds
\* what update_basic_dictionary would have stored for the same phrases.
C4_SyncPersists ==
    (ret.op = "sync" /\ ret.result = "Ok") =>
        base.content = MergeWords(ret.preBase.content, ret.args)

\* C10: a scan reads no file whose name matches one of the configured
\* exclude patterns (stated for the scans that return Ok).
C10_ExcludedNeverRead ==
    (ret.op = "scan" /\ ret.result = "Ok") =>
        \A n \in 1..Len(ret.reads) :
            ~\E i \in 1..Len(ret.args.exclude) : IsMatch(ret.args.exclude[i], ret.reads[n])

-----------------------------------------------------------------------------
(* Properties of the generated dictionaries, checked under SpecTranslate.  *)

AutoReturned(result) == ret.op = "auto" /\ ret.result = result

\* C5: after an autoTranslate in which every translation succeeded, every
\* target language has its dictionary file, with exactly as many entries as
\* the base dictionary has phrases and the base phrases as its keys, whether
\* or not the file existed before; no other dictionary file is touched.
C5_FanOutComplete ==
    AutoReturned("Ok") =>
        /\ \A l \in Range(ret.args) :
              /\ dict[l].exists
              /\ DOMAIN dict[l].content = Range(base.content)
              /\ Cardinality(DOMAIN dict[l].content) = Len(base.content)
        /\ \A l \in Langs \ Range(ret.args) : dict[l] = ret.preDict[l]

\* Two phrases have been translated into two languages, one of which had a
\* dictionary file before and one of which had none.
C5_Witness ==
    /\ AutoReturned("Ok")
    /\ Len(base.content) = 2
    /\ Range(ret.args) = Langs
    /\ \E l \in Langs : ret.preDict[l].exists
    /\ \E l \in Langs : ~ret.preDict[l].exists

\* A text without the quote characters that wrap it.
StripWrappingQuotes(text) ==
    IF Len(text) >= 2 /\ Head(text) = Quote /\ text[Len(text)] = Quote
    THEN SubSeq(text, 2, Len(text) - 1)
    ELSE text

\* C6: after an autoTranslate in which every translation succeeded, the
\* value stored under a phrase in a target language's dictionary is a text
\* the translator returned for that phrase and language, without its
\* wrapping quotes and otherwise unchanged.
C6_StoredTextIsTranslation ==
    AutoReturned("Ok") =>
        \A i \in 1..Len(ret.resp) :
            dict[ret.resp[i].language].content[ret.resp[i].tag] \in
                { StripWrappingQuotes(JsonToString(ret.resp[j].text)) :
                    j \in { n \in 1..Len(ret.resp) :
                              /\ ret.resp[n].tag = ret.resp[i].tag
                              /\ ret.resp[n].language = ret.resp[i].language } }

\* C7: if a translation of the batch failed at the provider, autoTranslate
\* returns an error and every per-language dictionary file is as it was
\* before the call.
C7_FailureWritesNothing ==
    (ret.op = "auto" /\ ret.failed >= 1) =>
        /\ ret.result \in {"APIError", "AsyncError"}
        /\ dict = ret.preDict

\* A batch of four translations into two languages, one of which had a
\* dictionary file, has ended with a provider failure.
C7_Witness ==
    /\ AutoReturned("APIError")
    /\ ret.failed >= 1
    /\ Len(ret.preBase.content) = 2
    /\ Range(ret.args) = Langs
    /\ \E l \in Langs : ret.preDict[l].exists

\* C8: the outcome reported for a batch accounts for every translation that
\* failed at the provider.
C8_AllFailuresReported ==
    (ret.op = "auto" /\ ret.failed >= 1) => ret.reported = ret.failed

\* C9: after generateManual succeeds, the dictionary file of every requested
\* language is exactly the object that maps every base phrase to the empty
\* string.
C9_ManualMirrorsBase ==
    (ret.op = "manual" /\ ret.result = "Ok") =>
        \A l \in Range(ret.args) :
            dict[l] = File([k \in Range(base.content) |-> <<>>])

\* generateManual has replaced a dictionary that held a translated text and
\* lacked a phrase of the base dictionary.
C9_Witness ==
    /\ ret.op = "manual"
    /\ ret.result = "Ok"
    /\ \E l \in Range(ret.args) :
          /\ ret.preDict[l].exists
          /\ DOMAIN ret.preDict[l].content # Range(base.content)
          /\ \E k \in DOMAIN ret.preDict[l].content : ret.preDict[l].content[k] # <<>>

-----------------------------------------------------------------------------
(* Properties of the scanner, checked under SpecScan.                      *)

ScanReturned(result) == ret.op = "scan" /\ ret.result = result

\* C11: a scan that fails on an unreadable source file leaves the base
\* dictionary file exactly as it was before the scan.
C11_FailedScanLeavesBase ==
    ScanReturned("IOError") => base = ret.preBase

\* The phrases of the literals that stand between a configured start marker
\* and a configured end marker, in the order of the file.
ConfiguredPhrases(string_start, string_end, lines) ==
    LET hit == SelectSeq(lines, LAMBDA line : /\ line.before \in Range(string_start)
                                             /\ line.after \in Range(string_end))
    IN  [i \in 1..Len(hit) |-> hit[i].phrase]

\* C12: for marker lists of any size, the extraction yields the phrase of
\* every literal between a configured start marker and a configured end
\* marker, once per occurrence, and nothing for any other literal.
C12_MarkersSelectPhrases ==
    (ret.op = "phrases" /\ ret.result = "Ok") =>
        ret.value = ConfiguredPhrases(ret.args.string_start, ret.args.string_end,
                                      ret.args.lines)

\* The same for configurations with one start marker and one end marker.
SingleMarkersSelect ==
    (/\ ret.op = "phrases" /\ ret.result = "Ok"
     /\ Len(ret.args.string_start) = 1 /\ Len(ret.args.string_end) = 1) =>
        ret.value = ConfiguredPhrases(ret.args.string_start, ret.args.string_end,
                                      ret.args.lines)

-----------------------------------------------------------------------------
(* Properties of the file names, checked under SpecNaming.                 *)

Decoded == ret.op = "language" /\ ret.result # "given"

\* C13: the language decoded from the base file name and from the
\* translated file name built for a language is that language, for every
\* two-letter code; a name that is built in neither way fails to decode.
\* (The convention is the shape dictionary-<lang>.base.json and
\* dictionary-<lang>.json: a name of that shape with a longer language text
\* follows it and decodes to that text.)
C13_NamingRoundTrips ==
    Decoded =>
        /\ \A l \in LanguageTexts :
               ret.args \in {BaseFileName(l), TranslatedFileName(l)} =>
                   ret.result = "Ok" /\ ret.value = l
        /\ ret.args \in OtherNames => ret.result = "Err"

C13_Witness ==
    /\ Decoded
    /\ ret.args = BaseFileName(<<"r", "u">>)
    /\ ret.result = "Ok"
    /\ ret.value = <<"r", "u">>

-----------------------------------------------------------------------------
(* Properties of the generators, checked under SpecTranslate.              *)

\* C14: merge, generateManual and autoTranslate called on a repository
\* without a base dictionary file return BasicDictionaryNotFound and leave
\* every file as it was; autoTranslate has spawned no task.
C14_NoBaseNoEffect ==
    (ret.op \in {"merge", "manual", "auto"} /\ ~ret.preBase.exists) =>
        /\ ret.result = "BasicDictionaryNotFound"
        /\ base = ret.preBase
        /\ dict = ret.preDict
        /\ apc = "idle"
        /\ atasks = <<>>

C14_Witness ==
    /\ ret.op = "auto"
    /\ ret.result = "BasicDictionaryNotFound"
    /\ ret.args = <<"de", "fr">>
    /\ ~base.exists
    /\ atasks = <<>>

-----------------------------------------------------------------------------
(* Properties of the export, checked under SpecBuild.                      *)

BuildReturned(result) == ret.op = "build" /\ ret.result = result

\* C15: a build without a language list exports exactly the languages that
\* have a dictionary file; every exported file has the keys of the
\* language's dictionary, and every value is the dictionary's value without
\* its quote characters.
C15_ExportMirrorsDictionaries ==
    (BuildReturned("Ok") /\ ~ret.args.some) =>
        \A l \in Langs :
            /\ out[l].exists = dict[l].exists
            /\ out[l].exists =>
                   /\ DOMAIN out[l].content = DOMAIN dict[l].content
                   /\ \A k \in DOMAIN dict[l].content :
                          out[l].content[k] = RemoveQuotes(dict[l].content[k])

\* The same for dictionaries whose values hold no backslash.
ExportMirrorsPlainDictionaries ==
    (BuildReturned("Ok") /\ ~ret.args.some) =>
        \A l \in Langs :
            /\ out[l].exists = dict[l].exists
            /\ out[l].exists =>
                   /\ DOMAIN out[l].content = DOMAIN dict[l].content
                   /\ \A k \in DOMAIN dict[l].content :
                          ~Contains(dict[l].content[k], Backslash) =>
                              out[l].content[k] = RemoveQuotes(dict[l].content[k])

\* C16: while an autoTranslate is running, a step changes a per-language
\* dictionary file only when none of the invocation's translation tasks is
\* unfinished.
C16_WritesAfterAllFinished ==
    [][(apc = "running" /\ dict' # dict) =>
           \A i \in 1..Len(atasks) : atasks[i].state # "pending"]_vars

\* An autoTranslate of four translations has written its dictionaries.
C16_Witness ==
    /\ AutoReturned("Ok")
    /\ Len(ret.resp) = 4
    /\ dict # ret.preDict
    /\ apc = "idle"

\* The tasks of the running autoTranslate that translate phrase into
\* language.
TasksFor(phrase, language) ==
    { i \in 1..Len(atasks) : atasks[i].word.tag = phrase /\ atasks[i].target = language }

\* C17: a running autoTranslate has exactly one task for every pair of a
\* phrase of the base dictionary and a target language, and every task
\* carries tag = word = phrase and the source language.
C17_OneTaskPerPair ==
    apc = "running" =>
        /\ \A phrase \in Range(base.content), language \in Range(atargets) :
               Cardinality(TasksFor(phrase, language)) = 1
        /\ \A i \in 1..Len(atasks) :
               /\ atasks[i].word.tag \in Range(base.content)
               /\ atasks[i].word.word = atasks[i].word.tag
               /\ atasks[i].word.language = SourceLanguage
               /\ atasks[i].target \in Range(atargets)

\* The same for target-language lists that name no language twice.
OneTaskPerPairOfDistinct ==
    (apc = "running" /\ NoDuplicates(atargets)) =>
        /\ \A phrase \in Range(base.content), language \in Range(atargets) :
               Cardinality(TasksFor(phrase, language)) = 1
        /\ \A i \in 1..Len(atasks) :
               /\ atasks[i].word.tag \in Range(base.content)
               /\ atasks[i].word.word = atasks[i].word.tag
               /\ atasks[i].word.language = SourceLanguage
               /\ atasks[i].target \in Range(atargets)

\* C18: an autoTranslate in which a task crashed or was cancelled returns
\* AsyncError, whatever else failed, and leaves every per-language
\* dictionary file as it was.
C18_CrashIsAsyncError ==
    (ret.op = "auto" /\ ret.crashed >= 1) =>
        /\ ret.result = "AsyncError"
        /\ dict = ret.preDict

\* The part of it about the files.
CrashWritesNothing ==
    (ret.op = "auto" /\ ret.crashed >= 1) =>
        /\ ret.result \in {"APIError", "AsyncError"}
        /\ dict = ret.preDict

-----------------------------------------------------------------------------
(* Properties of the parallel writers, checked under SpecManual.           *)

\* Iteration i holds the file of its path open, and iteration j is at a
\* step that deletes, creates or writes the same path.
SamePathWriters(i, j) ==
    /\ i # j
    /\ gen[i].language = gen[j].language
    /\ gen[i].pc = "write"
    /\ gen[j].pc \in {"remove", "create", "write"}

\* C19: no two parallel iterations of one generateManual delete, create or
\* write the same dictionary path at the same time, whatever the language
\* list.
C19_WritersOnDistinctPaths ==
    \A i, j \in 1..Len(gen) : ~SamePathWriters(i, j)

\* The same for language lists that name no language twice.
DistinctLanguagesDistinctPaths ==
    NoDuplicates(ret.args) => \A i, j \in 1..Len(gen) : ~SamePathWriters(i, j)

\* The step-by-step generation ends as GenerateEmptyDictionaries says: the
\* file of every listed language holds the empty dictionary of the base.
GenEndsAsGenerated ==
    (ret.op = "manual" /\ ret.result \in {"Ok", "Panic"}) =>
        /\ \A l \in Range(ret.args) : dict[l] = File(EmptyDictionaryOf(WordsOfBase(base)))
        /\ ret.result = "Panic" => HasRepeat(ret.args)

-----------------------------------------------------------------------------
(* Further properties of the scanner, checked under SpecScan.              *)

\* A file the scan has to read: not hidden, matched by no exclude pattern,
\* with an extension of the configuration.
Eligible(file, exclude) ==
    /\ ~StartsWithDot(file.name)
    /\ \A i \in 1..Len(exclude) : ~IsMatch(exclude[i], file.name)
    /\ GetFileExtension(file.name).some
    /\ <<".">> \o GetFileExtension(file.name).ext \in JsConfiguration.file_extensions

\* C20: a scan that succeeds has read, and merged, every eligible file of
\* the directory exactly once, whatever the number of exclude patterns.
C20_EligibleReadOnce ==
    ScanReturned("Ok") =>
        \A i \in 1..Len(ret.args.entries) :
            Eligible(ret.args.entries[i], ret.args.exclude) =>
                Count(ret.reads, ret.args.entries[i].name) = 1

\* The same for configurations with at most one exclude pattern.
EligibleReadOnceUpToOnePattern ==
    (ScanReturned("Ok") /\ Len(ret.args.exclude) <= 1) =>
        \A i \in 1..Len(ret.args.entries) :
            Eligible(ret.args.entries[i], ret.args.exclude) =>
                Count(ret.reads, ret.args.entries[i].name) = 1

-----------------------------------------------------------------------------
(* Properties of the scanner on mixed directories, checked under           *)
(* SpecListing.                                                            *)

\* An entry the scan has to pass over: listed, not hidden, matched by no
\* exclude pattern, and without an extension of the configuration.
Unmatched(file, exclude) ==
    /\ file.listed
    /\ ~StartsWithDot(file.name)
    /\ \A i \in 1..Len(exclude) : ~IsMatch(exclude[i], file.name)
    /\ \/ ~GetFileExtension(file.name).some
       \/ <<".">> \o GetFileExtension(file.name).ext \notin JsConfiguration.file_extensions

\* The scan ran on an initialised repository and every eligible file of
\* its listing was readable.
ScanOfReadable ==
    /\ ret.op = "scan"
    /\ ret.preBase.exists
    /\ \A i \in 1..Len(ret.args.entries) : ret.args.entries[i].readable \/ ~ret.args.entries[i].listed

\* The base dictionary a scan has to leave: the phrases of the eligible
\* files of the listing merged in the order of the listing.
RECURSIVE MergedEligible(_, _, _)
MergedEligible(content, entries, exclude) ==
    IF entries = <<>> THEN content
    ELSE MergedEligible(
             IF Head(entries).listed /\ Eligible(Head(entries), exclude)
             THEN MergeWords(content,
                             GetPhrasesFromFile(Head(entries),
                                                IncludePatterns(JsConfiguration)[<<".", "j", "s">>]))
             ELSE content,
             Tail(entries), exclude)

\* C21: an entry whose extension is in no configuration, or that has no
\* extension, is passed over: a scan of a listing whose entries were all
\* read from the directory returns Ok, and the base dictionary holds the
\* phrases of the eligible files and nothing of the entries passed over.
C21_UnmatchedSkipped ==
    (ScanOfReadable /\ \A i \in 1..Len(ret.args.entries) : ret.args.entries[i].listed) =>
        /\ ret.result = "Ok"
        /\ base.content = MergedEligible(ret.preBase.content, ret.args.entries, ret.args.exclude)
        /\ \A i \in 1..Len(ret.args.entries) :
               Unmatched(ret.args.entries[i], ret.args.exclude) =>
                   ~Contains(ret.reads, ret.args.entries[i].name)

\* The same for listings whose entries all have an extension, with at most
\* one exclude pattern.
UnmatchedExtensionSkipped ==
    (/\ ScanOfReadable
     /\ Len(ret.args.exclude) <= 1
     /\ \A i \in 1..Len(ret.args.entries) :
            /\ ret.args.entries[i].listed
            /\ GetFileExtension(ret.args.entries[i].name).some) =>
        /\ ret.result = "Ok"
        /\ base.content = MergedEligible(ret.preBase.content, ret.args.entries, ret.args.exclude)
        /\ \A i \in 1..Len(ret.args.entries) :
               Unmatched(ret.args.entries[i], ret.args.exclude) =>
                   ~Contains(ret.reads, ret.args.entries[i].name)

\* C22: an entry of the listing that could not be read is passed over: the
\* scan returns Ok and the base dictionary holds the phrases of the
\* eligible files of the listing.
C22_UnreadableEntrySkipped ==
    (/\ ScanOfReadable
     /\ \E i \in 1..Len(ret.args.entries) : ~ret.args.entries[i].listed
     /\ \A i \in 1..Len(ret.args.entries) :
            ret.args.entries[i].listed => GetFileExtension(ret.args.entries[i].name).some) =>
        /\ ret.result = "Ok"
        /\ base.content = MergedEligible(ret.preBase.content, ret.args.entries, ret.args.exclude)

-----------------------------------------------------------------------------
(* Properties of the lookups, checked under SpecFind.                      *)

Looked == ret.op \in {"get_basic_dictionary", "get_dictionary_by_lang"} /\ ret.result # "given"

\* The names of the listing that qualify for the lookup.
Qualifying ==
    { i \in 1..Len(ret.args.listing) :
        IF ret.op = "get_basic_dictionary"
        THEN QualifiesAsBase(ret.args.listing[i])
        ELSE QualifiesForLanguage(ret.args.listing[i], ret.args.lang) }

\* C23: a lookup in a directory where two files qualify (as the base
\* dictionary, or for the language asked for) returns an error.
C23_AmbiguityIsError ==
    (Looked /\ Cardinality(Qualifying) >= 2) => ret.result # "Ok"

\* A lookup in a directory where one file qualifies returns that file, and
\* where none qualifies it returns the error of its kind.
UniqueFileFound ==
    Looked =>
        /\ Cardinality(Qualifying) = 1 =>
               ret.result = "Ok" /\ \E i \in Qualifying : ret.value = ret.args.listing[i]
        /\ Qualifying = {} => ret.result \in {"BasicDictionaryNotFound", "IOError"}

-----------------------------------------------------------------------------
(* Further properties of the export, checked under SpecBuild.              *)

\* The languages the last build had to export.
BuildTargets ==
    IF ret.args.some THEN Range(ret.args.list) ELSE { l \in Langs : dict[l].exists }

\* The last build was given languages that all have a dictionary, none of
\* them twice, and the export of one of them existed when it started.
RebuildOverExport ==
    /\ ret.op = "build"
    /\ NoDuplicates(ret.args.list)
    /\ \A l \in BuildTargets : dict[l].exists
    /\ \E l \in BuildTargets : ret.value[l].exists

\* C24: a build for a language whose translation.json exists from an
\* earlier build returns Ok and leaves the file recreated from the
\* language's dictionary as it is now.
C24_RebuildRecreates ==
    RebuildOverExport =>
        /\ ret.result = "Ok"
        /\ \A l \in BuildTargets : out[l] = File(ExportOf(dict[l].content))

\* A build for languages that have a dictionary and no export yet returns
\* Ok and writes the export of each.
FirstBuildExports ==
    (/\ ret.op = "build"
     /\ NoDuplicates(ret.args.list)
     /\ \A l \in BuildTargets : dict[l].exists /\ ~ret.value[l].exists) =>
        /\ ret.result = "Ok"
        /\ \A l \in BuildTargets : out[l] = File(ExportOf(dict[l].content))

\* Both of two merges started at once have ended.
TwoMergesEnded == ret.op = "merge2" /\ ret.result = "done"

\* The phrases the two merges were given.
PhrasesOfCall(i) == Range(ret.args.words[i])

\* The two merges ran one after the other, in either order, on a base file
\* that was a whole document.
RanSerially ==
    /\ TwoMergesEnded
    /\ ret.preBase.exists /\ ~ret.args.torn
    /\ ~ret.value.overlapped

\* C25: two merges of disjoint new phrases can interleave their reads and
\* writes so that the base dictionary ends without the phrases of one of
\* them (C25_Witness is such an end), whereas two merges run one after the
\* other, in either order, both return Ok and leave a whole base
\* dictionary holding what it held before and every phrase of both.
C25_SerialKeepsAll ==
    RanSerially =>
        /\ \A i \in 1..2 : ret.value.results[i] = "Ok"
        /\ ~ret.value.torn
        /\ Range(base.content) =
               Range(ret.preBase.content) \cup PhrasesOfCall(1) \cup PhrasesOfCall(2)

\* Two interleaved merges of disjoint new phrases have both returned Ok,
\* the base file is a whole document, and the phrases of one merge are
\* missing from it.
C25_Witness ==
    /\ TwoMergesEnded
    /\ ret.preBase.exists /\ ~ret.args.torn
    /\ \A i \in 1..2 : ret.value.results[i] = "Ok"
    /\ ~ret.value.torn
    /\ PhrasesOfCall(1) # {} /\ PhrasesOfCall(2) # {}
    /\ PhrasesOfCall(1) \cap PhrasesOfCall(2) = {}
    /\ (PhrasesOfCall(1) \cup PhrasesOfCall(2)) \cap Range(ret.preBase.content) = {}
    /\ \E i \in 1..2 : PhrasesOfCall(i) \cap Range(base.content) = {}

\* Interleaved merges lose phrases or tear the file, never anything else:
\* whatever the interleaving, a whole base file holds what it held before
\* and the phrases of at least one of the merges that returned Ok.
InterleavedKeepsOne ==
    (/\ TwoMergesEnded
     /\ ret.preBase.exists /\ ~ret.args.torn
     /\ ~ret.value.torn) =>
        /\ Range(ret.preBase.content) \subseteq Range(base.content)
        /\ \/ \A i \in 1..2 : ret.value.results[i] # "Ok"
           \/ \E i \in 1..2 : /\ ret.value.results[i] = "Ok"
                               /\ PhrasesOfCall(i) \subseteq Range(base.content)

\* C26: an init on a repository without a base dictionary returns Ok and
\* leaves one holding the empty array; an init on a repository that has the
\* base dictionary returns the filesystem error and leaves the file as it
\* was, whatever earlier merges have put into it.
C26_InitCreatesOnce ==
    ret.op = "init" =>
        IF ret.preBase.exists
        THEN ret.result = "IOError" /\ base = ret.preBase
        ELSE ret.result = "Ok" /\ base = File(<<>>)

\* An init has failed on a base dictionary that earlier merges had filled,
\* and the phrases are still there.
C26_Witness ==
    /\ ret.op = "init"
    /\ ret.preBase.exists
    /\ Len(ret.preBase.content) >= 2
    /\ ret.result = "IOError"
    /\ base.content = ret.preBase.content

====
